---- MODULE Spec2Model ----
(***************************************************************************)
(* Model of the Space Exploration Missions Analyzer (src/analyze.py).      *)
(*                                                                         *)
(* Text is a sequence of one-character strings, so that lower-casing,      *)
(* substring search, splitting and integer parsing are computed and not    *)
(* assumed.  A call's outcome is either a returned value or a raised       *)
(* exception: Ok(v) / Raise(e).  An optional command-line value is <<>>    *)
(* (None) or <<v>>.                                                        *)
(*                                                                         *)
(* SpecLib drives the library functions one call at a time, the way        *)
(* src/test_analyze.py does.  Spec is one run of main().                   *)
(***************************************************************************)
EXTENDS Integers, Sequences, FiniteSets, TLC

VARIABLES
    records,        \* SpecLib: the caller's list of mission records
    call,           \* SpecLib: the last library call and its arguments
    ret,            \* SpecLib: the outcome of that call
    file,           \* Spec: the CSV file at args.data (its data rows, or missing)
    args,           \* Spec: the parsed command line
    pc,             \* Spec: position of main()
    data,           \* Spec: what load_data returned
    filtered_data,  \* Spec: main's filtered_data
    out,            \* Spec: what has been printed / rendered so far
    exit_code       \* Spec: the process's exit code once it has ended

mainvars == <<file, args, pc, data, filtered_data, out, exit_code>>
vars == <<records, call, ret, file, args, pc, data, filtered_data, out, exit_code>>

----------------------------------------------------------------------------
(* Bounds *)

\* longest record list handed to a library function
MaxRows == 3
\* most data rows in the CSV file of a run of main
MaxFileRows == 2
\* largest number handed to is_prime / is_divisible_by directly
MaxNum == 30

----------------------------------------------------------------------------
(* Outcomes and Python built-ins *)

\* a call that returned v, having printed the messages msgs
OkPrinted(v, msgs) == [kind |-> "ok", val |-> v, exc |-> "none", printed |-> msgs]
Ok(v) == OkPrinted(v, <<>>)
\* a call that raised e, having printed msgs
RaisePrinted(e, msgs) == [kind |-> "raise", val |-> <<>>, exc |-> e, printed |-> msgs]
Raise(e) == RaisePrinted(e, <<>>)

UpperCase == <<"A","B","C","D","E","F","G","H","I","J","K","L","M",
               "N","O","P","Q","R","S","T","U","V","W","X","Y","Z">>
LowerCase == <<"a","b","c","d","e","f","g","h","i","j","k","l","m",
               "n","o","p","q","r","s","t","u","v","w","x","y","z">>
DigitChars == <<"0","1","2","3","4","5","6","7","8","9">>

\* str.lower() on one (ASCII) character
LowerChar(c) ==
    IF \E i \in 1..Len(UpperCase) : UpperCase[i] = c
    THEN LowerCase[CHOOSE i \in 1..Len(UpperCase) : UpperCase[i] = c]
    ELSE c

\* str.lower()
Lower(s) == [i \in 1..Len(s) |-> LowerChar(s[i])]

\* `sub in s` on strings
Contains(sub, s) ==
    \E i \in 0..(Len(s) - Len(sub)) : SubSeq(s, i + 1, i + Len(sub)) = sub

IsDigit(c) == \E i \in 1..Len(DigitChars) : DigitChars[i] = c
DigitVal(c) == (CHOOSE i \in 1..Len(DigitChars) : DigitChars[i] = c) - 1

RECURSIVE StripLeft(_)
StripLeft(s) == IF s # <<>> /\ Head(s) = " " THEN StripLeft(Tail(s)) ELSE s

RECURSIVE StripRight(_)
StripRight(s) ==
    IF s # <<>> /\ s[Len(s)] = " " THEN StripRight(SubSeq(s, 1, Len(s) - 1)) ELSE s

RECURSIVE DigitsValue(_, _)
DigitsValue(s, acc) ==
    IF s = <<>> THEN acc ELSE DigitsValue(Tail(s), 10 * acc + DigitVal(Head(s)))

\* int(text): surrounding blanks are ignored, one optional sign, then digits only
PyInt(text) ==
    LET t == StripRight(StripLeft(text))
        signed == t # <<>> /\ t[1] \in {"-", "+"}
        body == IF signed THEN Tail(t) ELSE t
    IN  IF body = <<>> \/ \E i \in 1..Len(body) : ~IsDigit(body[i])
        THEN Raise("ValueError")
        ELSE IF signed /\ t[1] = "-"
             THEN Ok(0 - DigitsValue(body, 0))
             ELSE Ok(DigitsValue(body, 0))

RECURSIVE NatStr(_)
NatStr(n) ==
    IF n < 10 THEN <<DigitChars[n + 1]>>
    ELSE NatStr(n \div 10) \o <<DigitChars[(n % 10) + 1]>>

\* str(n) of an int
PyStr(n) == IF n < 0 THEN <<"-">> \o NatStr(0 - n) ELSE NatStr(n)

RECURSIVE Split(_, _)
\* text.split(sep) for a one-character separator
Split(text, sep) ==
    IF \E i \in 1..Len(text) : text[i] = sep
    THEN LET i == CHOOSE j \in 1..Len(text) :
                     text[j] = sep /\ \A k \in 1..(j - 1) : text[k] # sep
         IN  <<SubSeq(text, 1, i - 1)>> \o Split(SubSeq(text, i + 1, Len(text)), sep)
    ELSE <<text>>

\* a % b for b # 0: the result takes the sign of the divisor
PyMod(a, b) == IF b > 0 THEN a % b ELSE 0 - ((0 - a) % (0 - b))

\* int(math.sqrt(num)) for num >= 0 (exact below 2^52)
IntSqrt(num) == CHOOSE r \in 0..num : r * r <= num /\ (r + 1) * (r + 1) > num

\* [row for row in data if keep[row]], keep given as the wanted positions
RECURSIVE Comprehension(_, _)
Comprehension(rows, keep) ==
    IF rows = <<>> THEN <<>>
    ELSE (IF keep[1] THEN <<Head(rows)>> ELSE <<>>)
         \o Comprehension(Tail(rows), [i \in 1..(Len(rows) - 1) |-> keep[i + 1]])

Reverse(s) == [i \in 1..Len(s) |-> s[Len(s) + 1 - i]]

SeqsUpTo(S, n) == UNION {[1..k -> S] : k \in 0..n}

NoCall == [fn |-> "none", arg |-> <<>>, num |-> 0, divisor |-> 0,
           column |-> "", value |-> <<>>]

----------------------------------------------------------------------------
(* Predicate library *)

RECURSIVE TrialDivide(_, _, _)
\* for i in range(lo, hi): if num % i == 0: return False;  return True
TrialDivide(num, lo, hi) ==
    IF lo >= hi THEN TRUE
    ELSE IF num % lo = 0 THEN FALSE
    ELSE TrialDivide(num, lo + 1, hi)

is_prime_short_range(num) ==
    IF num < 2 THEN FALSE ELSE TrialDivide(num, 2, IntSqrt(num))

is_prime(num) ==
    IF num < 2 THEN FALSE ELSE TrialDivide(num, 2, IntSqrt(num) + 1)

is_divisible_by(num, divisor) ==
    IF divisor = 0 THEN Raise("ZeroDivisionError")
    ELSE Ok(PyMod(num, divisor) = 0)

----------------------------------------------------------------------------
(* Filter engine *)

TrueText == <<"t","r","u","e">>

\* the fields load_data leaves as text; year and scientific_impact are int,
\* success is bool
TextColumns == {"mission_name", "mission_type", "participating_countries"}

filter_by_prime_years_reversed(rows) ==
    Ok(Reverse(Comprehension(rows, [i \in 1..Len(rows) |-> is_prime(rows[i].year)])))

filter_by_prime_years(rows) ==
    Ok(Comprehension(rows, [i \in 1..Len(rows) |-> is_prime(rows[i].year)]))

\* the comprehension calls is_divisible_by once per row, so the error of a
\* zero divisor is raised by the first row, and by no row of an empty list
filter_by_divisible_years(rows, divisor) ==
    IF \E i \in 1..Len(rows) : is_divisible_by(rows[i].year, divisor).kind = "raise"
    THEN Raise("ZeroDivisionError")
    ELSE Ok(Comprehension(rows,
                [i \in 1..Len(rows) |-> is_divisible_by(rows[i].year, divisor).val]))

filter_by_column(rows, column, value) ==
    IF rows = <<>> THEN Raise("IndexError")                \* data[0]
    ELSE IF column \notin DOMAIN rows[1]
    THEN OkPrinted(rows, <<"Error: Column not found in data.">>)
    ELSE IF column = "success"
    THEN LET wanted == (Lower(value) = TrueText)
         IN  Ok(Comprehension(rows, [i \in 1..Len(rows) |-> rows[i][column] = wanted]))
    ELSE IF column = "scientific_impact"
    THEN LET threshold == PyInt(value)
         IN  IF threshold.kind = "raise"
             THEN OkPrinted(rows, <<"Error: Scientific impact must be a number.">>)
             ELSE Ok(Comprehension(rows,
                        [i \in 1..Len(rows) |-> rows[i][column] >= threshold.val]))
    ELSE IF column \notin TextColumns
    THEN Raise("AttributeError")                            \* int has no .lower()
    ELSE Ok(Comprehension(rows,
                [i \in 1..Len(rows) |-> Contains(Lower(value), Lower(rows[i][column]))]))

----------------------------------------------------------------------------
(* Reporter *)

RECURSIVE CountInto(_, _)
\* Counter(items): one <<key, count>> entry per distinct key, in the order the
\* keys were first met (dict insertion order), starting from the entries acc
CountInto(items, acc) ==
    IF items = <<>> THEN acc
    ELSE LET k == Head(items)
         IN  IF \E i \in 1..Len(acc) : acc[i][1] = k
             THEN CountInto(Tail(items),
                      [i \in 1..Len(acc) |->
                          IF acc[i][1] = k THEN <<k, acc[i][2] + 1>> ELSE acc[i]])
             ELSE CountInto(Tail(items), Append(acc, <<k, 1>>))

Counter(items) == CountInto(items, <<>>)

\* an unstable variant: an equal count goes in front
InsertByCountUnstable(sorted, e) ==
    LET n == Cardinality({i \in 1..Len(sorted) : sorted[i][2] > e[2]})
    IN  SubSeq(sorted, 1, n) \o <<e>> \o SubSeq(sorted, n + 1, Len(sorted))

\* where a stable descending sort puts e among the already sorted entries:
\* behind every entry whose count is at least e's
InsertByCount(sorted, e) ==
    LET n == Cardinality({i \in 1..Len(sorted) : sorted[i][2] >= e[2]})
    IN  SubSeq(sorted, 1, n) \o <<e>> \o SubSeq(sorted, n + 1, Len(sorted))

RECURSIVE SortByCount(_, _)
SortByCount(entries, sorted) ==
    IF entries = <<>> THEN sorted
    ELSE SortByCount(Tail(entries), InsertByCount(sorted, Head(entries)))

\* Counter.most_common(): sorted(items, key=count, reverse=True), a stable sort
most_common(counter) == SortByCount(counter, <<>>)

RECURSIVE Flatten(_)
Flatten(lists) == IF lists = <<>> THEN <<>> ELSE Head(lists) \o Flatten(Tail(lists))

\* countries = []; for row in data: countries.extend(row[...].split('/'))
CountryTokens(rows) ==
    Flatten([i \in 1..Len(rows) |-> Split(rows[i].participating_countries, "/")])

RECURSIVE SumSeq(_)
SumSeq(s) == IF s = <<>> THEN 0 ELSE Head(s) + SumSeq(Tail(s))

MinOf(S) == CHOOSE x \in S : \A y \in S : x <= y
MaxOf(S) == CHOOSE x \in S : \A y \in S : x >= y

\* what generate_summary prints; the rate and the average are kept as the
\* exact quotient success_count / total and impact_sum / total
generate_summary(rows) ==
    IF rows = <<>> THEN Ok(<<>>)
    ELSE LET years == {rows[i].year : i \in 1..Len(rows)}
         IN  OkPrinted(<<>>, <<[
                 total |-> Len(rows),
                 min_year |-> MinOf(years),
                 max_year |-> MaxOf(years),
                 success_count |-> Cardinality({i \in 1..Len(rows) : rows[i].success}),
                 impact_sum |-> SumSeq([i \in 1..Len(rows) |-> rows[i].scientific_impact]),
                 types |-> most_common(Counter([i \in 1..Len(rows) |-> rows[i].mission_type])),
                 countries |-> most_common(Counter(CountryTokens(rows)))]>>)

----------------------------------------------------------------------------
(* Data loader *)

\* one csv row (all six fields text) turned into a record; int() of year or
\* scientific_impact may raise ValueError
ConvertRow(row) ==
    LET y == PyInt(row.year)
        imp == PyInt(row.scientific_impact)
    IN  IF y.kind = "raise" \/ imp.kind = "raise" THEN Raise("ValueError")
        ELSE Ok([year |-> y.val,
                 mission_name |-> row.mission_name,
                 mission_type |-> row.mission_type,
                 success |-> (Lower(row.success) = TrueText),
                 participating_countries |-> row.participating_countries,
                 scientific_impact |-> imp.val])

RECURSIVE LoadRows(_, _)
\* for row in reader: convert, data.append(row); any exception ends the
\* process with exit code 1
LoadRows(rows, acc) ==
    IF rows = <<>> THEN Ok(acc)
    ELSE LET r == ConvertRow(Head(rows))
         IN  IF r.kind = "raise"
             THEN RaisePrinted("SystemExit", <<"Error loading data">>)
             ELSE LoadRows(Tail(rows), Append(acc, r.val))

RECURSIVE LoadRowsSkipping(_, _)
LoadRowsSkipping(rows, acc) ==
    IF rows = <<>> THEN Ok(acc)
    ELSE LET r == ConvertRow(Head(rows))
         IN  IF r.kind = "raise"
             THEN LoadRowsSkipping(Tail(rows), acc)
             ELSE LoadRowsSkipping(Tail(rows), Append(acc, r.val))

\* a loader that drops the rows it cannot convert
load_data_skipping(f) ==
    IF ~f.exists THEN RaisePrinted("SystemExit", <<"Error: File not found.">>)
    ELSE LoadRowsSkipping(f.rows, <<>>)

load_data(f) ==
    IF ~f.exists THEN RaisePrinted("SystemExit", <<"Error: File not found.">>)
    ELSE LoadRows(f.rows, <<>>)

----------------------------------------------------------------------------
(* Chart renderer *)

RECURSIVE SortedSeq(_)
\* sorted(set(...)) of integers
SortedSeq(S) ==
    IF S = {} THEN <<>> ELSE <<MinOf(S)>> \o SortedSeq(S \ {MinOf(S)})

\* returns False on no data; else one bar <<year, successes, total>> per year
\* in ascending order, saved to output_file when one is given, else shown
plot_mission_success(rows, output_file) ==
    IF rows = <<>> THEN Ok(FALSE)
    ELSE LET years == SortedSeq({rows[i].year : i \in 1..Len(rows)})
             bars == [k \in 1..Len(years) |->
                        <<years[k],
                          Cardinality({i \in 1..Len(rows) :
                              rows[i].year = years[k] /\ rows[i].success}),
                          Cardinality({i \in 1..Len(rows) : rows[i].year = years[k]})>>]
             saved == output_file # <<>> /\ output_file[1] # <<>>
         IN  OkPrinted(TRUE,
                 <<[ev |-> "plot", val |-> bars]>>
                 \o (IF saved THEN <<[ev |-> "plot_saved", val |-> output_file[1]]>>
                     ELSE <<[ev |-> "plot_shown", val |-> <<>>]>>))

\* display_results(data, show_summary)
display_results(rows, show_summary) ==
    IF rows = <<>> THEN <<[ev |-> "no_match", val |-> <<>>]>>
    ELSE <<[ev |-> "table", val |-> rows]>>
         \o (IF show_summary
             THEN [i \in 1..Len(generate_summary(rows).printed) |->
                      [ev |-> "summary", val |-> generate_summary(rows).printed[i]]]
             ELSE <<>>)

----------------------------------------------------------------------------
(* main *)

RawA == [year |-> <<"1","9","7","3">>, mission_name |-> <<"P","1">>,
         mission_type |-> <<"M","a","r","s">>, success |-> <<"T","r","u","e">>,
         participating_countries |-> <<"U","S">>, scientific_impact |-> <<"9">>]
RawB == [year |-> <<"1","9","8","0">>, mission_name |-> <<"T","1">>,
         mission_type |-> <<"E","a","r","t","h">>, success |-> <<"F","a","l","s","e">>,
         participating_countries |-> <<"S","U","/","U","S">>,
         scientific_impact |-> <<"-","1">>]
RawBadYear == [RawA EXCEPT !.year = <<"1","9","x">>]
RawBadImpact == [RawB EXCEPT !.scientific_impact = <<"8",".","5">>]

RawPool == {RawA, RawB, RawBadYear, RawBadImpact}

Files ==
    {[exists |-> FALSE, rows |-> <<>>]}
    \cup {[exists |-> TRUE, rows |-> r] : r \in SeqsUpTo(RawPool, MaxFileRows)}

\* what argparse can hand to main: None is <<>>, a given value v is <<v>>
ArgSpace ==
    [prime : BOOLEAN,
     divisible_by : {<<>>, <<0>>, <<2>>},
     type : {<<>>, << <<"m","a","r","s">> >>},
     country : {<<>>, << <<"s","u">> >>},
     success : {<<>>, << <<"t","r","u","e">> >>, << <<"f","a","l","s","e">> >>},
     impact : {<<>>, <<0>>, <<8>>},
     summary : BOOLEAN,
     plot : BOOLEAN,
     plot_file : {<<>>, << <<"f">> >>}]

\* Python truth of an optional int / an optional str
TruthyInt(opt) == opt # <<>> /\ opt[1] # 0
TruthyStr(opt) == opt # <<>> /\ opt[1] # <<>>

LibIdle ==
    /\ records = <<>>
    /\ call = NoCall
    /\ ret = Ok(<<>>)

Init ==
    /\ file \in Files
    /\ args \in ArgSpace
    /\ pc = "load"
    /\ data = <<>>
    /\ filtered_data = <<>>
    /\ out = <<>>
    /\ exit_code = <<>>
    /\ LibIdle

\* data = load_data(args.data); filtered_data = data
LoadData ==
    /\ pc = "load"
    /\ LET r == load_data(file)
       IN  IF r.kind = "raise"
           THEN /\ out' = [i \in 1..Len(r.printed) |->
                             [ev |-> "message", val |-> r.printed[i]]]
                /\ exit_code' = <<1>>
                /\ pc' = "done"
                /\ UNCHANGED <<data, filtered_data>>
           ELSE /\ data' = r.val
                /\ filtered_data' = r.val
                /\ pc' = "prime"
                /\ UNCHANGED <<out, exit_code>>
    /\ UNCHANGED <<file, args, records, call, ret>>

\* if <flag>: filtered_data = <filter>(filtered_data, ...); an exception the
\* filter raises is caught nowhere and ends the process with a traceback
FilterStep(at, given, r, next) ==
    /\ pc = at
    /\ IF ~given
       THEN /\ pc' = next
            /\ UNCHANGED <<filtered_data, out, exit_code>>
       ELSE IF r.kind = "raise"
       THEN /\ out' = Append(out, [ev |-> "traceback", val |-> r.exc])
            /\ exit_code' = <<1>>
            /\ pc' = "done"
            /\ UNCHANGED filtered_data
       ELSE /\ filtered_data' = r.val
            /\ out' = out \o [i \in 1..Len(r.printed) |->
                                [ev |-> "message", val |-> r.printed[i]]]
            /\ pc' = next
            /\ UNCHANGED exit_code
    /\ UNCHANGED <<file, args, data, records, call, ret>>

ApplyPrime ==
    FilterStep("prime", args.prime, filter_by_prime_years(filtered_data), "divisible")

ApplyDivisible ==
    FilterStep("divisible", TruthyInt(args.divisible_by),
               filter_by_divisible_years(filtered_data, args.divisible_by[1]), "type")

ApplyType ==
    FilterStep("type", TruthyStr(args.type),
               filter_by_column(filtered_data, "mission_type", args.type[1]), "country")

ApplyCountry ==
    FilterStep("country", TruthyStr(args.country),
               filter_by_column(filtered_data, "participating_countries",
                                args.country[1]), "success")

ApplySuccess ==
    FilterStep("success", TruthyStr(args.success),
               filter_by_column(filtered_data, "success", args.success[1]), "impact")

ApplyImpact ==
    FilterStep("impact", TruthyInt(args.impact),
               filter_by_column(filtered_data, "scientific_impact",
                                PyStr(args.impact[1])), "display")

Display ==
    /\ pc = "display"
    /\ out' = out \o display_results(filtered_data, args.summary)
    /\ pc' = "plot"
    /\ UNCHANGED <<file, args, data, filtered_data, exit_code, records, call, ret>>

\* if args.plot or args.plot_file: ...; then main returns and the process
\* ends with exit code 0
PlotAndExit ==
    /\ pc = "plot"
    /\ IF args.plot \/ TruthyStr(args.plot_file)
       THEN LET r == plot_mission_success(filtered_data, args.plot_file)
            IN  out' = out \o (IF r.val THEN r.printed
                               ELSE <<[ev |-> "message",
                                       val |-> "Not enough data to generate a plot."]>>)
       ELSE UNCHANGED out
    /\ exit_code' = <<0>>
    /\ pc' = "done"
    /\ UNCHANGED <<file, args, data, filtered_data, records, call, ret>>

Next ==
    \/ LoadData
    \/ ApplyPrime
    \/ ApplyDivisible
    \/ ApplyType
    \/ ApplyCountry
    \/ ApplySuccess
    \/ ApplyImpact
    \/ Display
    \/ PlotAndExit

Spec == Init /\ [][Next]_vars

----------------------------------------------------------------------------
(* Library calls, one at a time (SpecLib) *)

RecA == [year |-> 1973, mission_name |-> <<"P","1">>,
         mission_type |-> <<"M","a","r","s">>, success |-> TRUE,
         participating_countries |-> <<"U","S">>, scientific_impact |-> 9]
RecB == [year |-> 1980, mission_name |-> <<"T","1">>,
         mission_type |-> <<"E","a","r","t","h">>, success |-> FALSE,
         participating_countries |-> <<"S","U","/","U","S">>, scientific_impact |-> -1]
RecC == [year |-> 1979, mission_name |-> <<"V","1">>,
         mission_type |-> <<"M","A","R","S">>, success |-> TRUE,
         participating_countries |-> <<"S","U">>, scientific_impact |-> 8]
RecD == [year |-> 1972, mission_name |-> <<"P","0">>,
         mission_type |-> <<"J","o","v","e">>, success |-> TRUE,
         participating_countries |-> <<"U","S","/","E","U">>, scientific_impact |-> 8]

RecordPool == {RecA, RecB, RecC, RecD}

Columns == {"year", "mission_name", "mission_type", "success",
            "participating_countries", "scientific_impact", "launch_site"}

Values == {<<"m","a","r","s">>, <<"U","S">>, <<"T","r","u","e">>,
           <<"f","a","l","s","e">>, <<" ","8">>, <<"8",".","5">>, <<"1","9">>, <<>>}

Divisors == {-2, 0, 2, 5}

Numbers == (0 - 3)..MaxNum

Filters == {"filter_by_prime_years", "filter_by_divisible_years", "filter_by_column"}

MainIdle ==
    /\ file = [exists |-> FALSE, rows |-> <<>>]
    /\ args = <<>>
    /\ pc = "idle"
    /\ data = <<>>
    /\ filtered_data = <<>>
    /\ out = <<>>
    /\ exit_code = <<>>

InitLib ==
    /\ records \in SeqsUpTo(RecordPool, MaxRows)
    /\ call = NoCall
    /\ ret = Ok(<<>>)
    /\ MainIdle

CallIsPrime ==
    \E n \in Numbers :
        /\ call = NoCall
        /\ call' = [NoCall EXCEPT !.fn = "is_prime", !.num = n]
        /\ ret' = Ok(is_prime(n))
        /\ UNCHANGED records
    /\ UNCHANGED mainvars
        /\ UNCHANGED mainvars

CallIsDivisibleBy ==
    \E n \in Numbers, d \in Divisors :
        /\ call = NoCall
        /\ call' = [NoCall EXCEPT !.fn = "is_divisible_by", !.num = n, !.divisor = d]
        /\ ret' = is_divisible_by(n, d)
        /\ UNCHANGED records
    /\ UNCHANGED mainvars
        /\ UNCHANGED mainvars

CallFilterByPrimeYears ==
    /\ call = NoCall
    /\ call' = [NoCall EXCEPT !.fn = "filter_by_prime_years", !.arg = records]
    /\ ret' = filter_by_prime_years(records)
    /\ UNCHANGED records
    /\ UNCHANGED mainvars

CallFilterByDivisibleYears ==
    \E d \in Divisors :
        /\ call = NoCall
        /\ call' = [NoCall EXCEPT !.fn = "filter_by_divisible_years",
                                  !.arg = records, !.divisor = d]
        /\ ret' = filter_by_divisible_years(records, d)
        /\ UNCHANGED records
    /\ UNCHANGED mainvars
        /\ UNCHANGED mainvars

CallFilterByColumn ==
    \E c \in Columns, v \in Values :
        /\ call = NoCall
        /\ call' = [NoCall EXCEPT !.fn = "filter_by_column",
                                  !.arg = records, !.column = c, !.value = v]
        /\ ret' = filter_by_column(records, c, v)
        /\ UNCHANGED records
    /\ UNCHANGED mainvars
        /\ UNCHANGED mainvars

CallGenerateSummary ==
    /\ call = NoCall
    /\ call' = [NoCall EXCEPT !.fn = "generate_summary", !.arg = records]
    /\ ret' = generate_summary(records)
    /\ UNCHANGED records
    /\ UNCHANGED mainvars

\* filtered = f(filtered): the caller goes on with what the filter returned
Rebind ==
    /\ call.fn \in Filters
    /\ ret.kind = "ok"
    /\ records' = ret.val
    /\ call' = NoCall
    /\ ret' = Ok(<<>>)
    /\ UNCHANGED mainvars

\* the caller drops the outcome and keeps its list
Discard ==
    /\ call # NoCall
    /\ call' = NoCall
    /\ ret' = Ok(<<>>)
    /\ UNCHANGED records
    /\ UNCHANGED mainvars

NextLib ==
    \/ CallIsPrime
    \/ CallIsDivisibleBy
    \/ CallFilterByPrimeYears
    \/ CallFilterByDivisibleYears
    \/ CallFilterByColumn
    \/ CallGenerateSummary
    \/ Rebind
    \/ Discard

SpecLib == InitLib /\ [][NextLib]_vars

----------------------------------------------------------------------------
(* Properties of the library calls (checked under SpecLib) *)

RECURSIVE IsSubseq(_, _)
\* s is t with some elements left out, the others in t's order
IsSubseq(s, t) ==
    IF s = <<>> THEN TRUE
    ELSE IF t = <<>> THEN FALSE
    ELSE IF Head(s) = Head(t) THEN IsSubseq(Tail(s), Tail(t))
    ELSE IsSubseq(s, Tail(t))

\* C1: whenever a filter returns a sequence, it is a subsequence of its input
\* in the input's order, and the caller's list is what it was at the call.
C1_FilterReturnsOrderedSubsequence ==
    (call.fn \in Filters /\ ret.kind = "ok") =>
        /\ IsSubseq(ret.val, call.arg)
        /\ records = call.arg

C1_Witness ==
    /\ call.fn = "filter_by_prime_years"
    /\ call.arg = <<RecA, RecB, RecC>>
    /\ ret.kind = "ok"
    /\ ret.val = <<RecA, RecC>>
    /\ records = <<RecA, RecB, RecC>>

\* the mathematical reading of "prime" the claim gives
NoSmallDivisor(n) == n >= 2 /\ \A k \in 2..n : (k * k <= n) => (n % k # 0)

\* C6: is_prime(n) is true exactly when n >= 2 and no k with 2 <= k, k*k <= n
\* divides n, and filter_by_prime_years keeps exactly the records of such years.
C6_IsPrimeIsTrialDivision ==
    /\ call.fn = "is_prime" =>
           (ret.kind = "ok" /\ ret.val = NoSmallDivisor(call.num))
    /\ call.fn = "filter_by_prime_years" =>
           /\ ret.kind = "ok"
           /\ ret.val = SelectSeq(call.arg, LAMBDA r : NoSmallDivisor(r.year))

C6_Witness ==
    /\ call.fn = "is_prime"
    /\ call.num = 25
    /\ ret.val = FALSE

\* the tokens of a '/'-separated text, as the places <<first, last>> they span
TokenSpans(text) ==
    {sp \in (1..(Len(text) + 1)) \X (0..Len(text)) :
        /\ sp[2] >= sp[1] - 1
        /\ (sp[1] = 1 \/ text[sp[1] - 1] = "/")
        /\ (sp[2] = Len(text) \/ text[sp[2] + 1] = "/")
        /\ \A i \in sp[1]..sp[2] : text[i] # "/"}

\* every <<row, span>> of a country token of rows
TokenPlaces(rows) ==
    UNION {{<<i, sp>> : sp \in TokenSpans(rows[i].participating_countries)} :
              i \in 1..Len(rows)}

TokenAt(rows, pl) ==
    SubSeq(rows[pl[1]].participating_countries, pl[2][1], pl[2][2])

\* the breakdown lists every key once with its number of occurrences, most
\* frequent first, equal counts in the order the keys were first met
\* (occ: the set of occurrences, keyOf: an occurrence's key, before: the order
\* in which occurrences are met)
IsBreakdown(list, occ, keyOf(_), before(_, _)) ==
    LET first(k) == CHOOSE o \in occ :
                        keyOf(o) = k /\ \A p \in occ : keyOf(p) = k => (p = o \/ before(o, p))
    IN  /\ {list[i][1] : i \in 1..Len(list)} = {keyOf(o) : o \in occ}
        /\ \A i, j \in 1..Len(list) : list[i][1] = list[j][1] => i = j
        /\ \A i \in 1..Len(list) :
               list[i][2] = Cardinality({o \in occ : keyOf(o) = list[i][1]})
        /\ \A i, j \in 1..Len(list) : i < j =>
               \/ list[i][2] > list[j][2]
               \/ /\ list[i][2] = list[j][2]
                  /\ before(first(list[i][1]), first(list[j][1]))
        /\ SumSeq([i \in 1..Len(list) |-> list[i][2]]) = Cardinality(occ)

\* C10: on a non-empty list generate_summary lists each mission type with its
\* number of records and each country token with its number of occurrences,
\* by count descending, ties in first-met order; the counts sum to the totals.
C10_SummaryBreakdowns ==
    (call.fn = "generate_summary" /\ call.arg # <<>>) =>
        /\ ret.kind = "ok"
        /\ Len(ret.printed) = 1
        /\ LET rows == call.arg
               typeOf(i) == rows[i].mission_type
               tokenOf(pl) == TokenAt(rows, pl)
               rowBefore(i, j) == i < j
               placeBefore(p, q) ==
                   p[1] < q[1] \/ (p[1] = q[1] /\ p[2][1] < q[2][1])
           IN  /\ IsBreakdown(ret.printed[1].types, 1..Len(rows), typeOf, rowBefore)
               /\ IsBreakdown(ret.printed[1].countries, TokenPlaces(rows),
                              tokenOf, placeBefore)

C10_Witness ==
    /\ call.fn = "generate_summary"
    /\ call.arg = <<RecB, RecD, RecA>>
    /\ ret.printed[1].types =
           << <<(<<"E","a","r","t","h">>), 1>>, <<(<<"J","o","v","e">>), 1>>,
              <<(<<"M","a","r","s">>), 1>> >>
    /\ ret.printed[1].countries =
           << <<(<<"U","S">>), 3>>, <<(<<"S","U">>), 1>>, <<(<<"E","U">>), 1>> >>

----------------------------------------------------------------------------
(* Statements the code does not meet (SpecLib) *)

Fields == DOMAIN RecA

\* the text of a record's column
ColumnText(r, c) == IF c \in {"year", "scientific_impact"} THEN PyStr(r[c]) ELSE r[c]

\* C5: filter_by_column fails open on every sequence, the empty one included:
\* with an unknown column, or with scientific_impact and a value that is no
\* integer, it raises nothing and returns its input.
C5_ColumnFilterFailsOpen ==
    (/\ call.fn = "filter_by_column"
     /\ \/ call.column \notin Fields
        \/ call.column = "scientific_impact" /\ PyInt(call.value).kind = "raise") =>
        (ret.kind = "ok" /\ ret.val = call.arg)

\* C7: on a non-empty sequence filter_by_column keeps exactly the records that
\* match: success equal to (lower-cased value = "true"), scientific_impact >=
\* the integer value, and for every other existing column the records whose
\* column text contains the value, case-insensitively.
C7_ColumnFilterKeepsMatches ==
    (/\ call.fn = "filter_by_column"
     /\ call.arg # <<>>
     /\ call.column \in Fields
     /\ call.column = "scientific_impact" => PyInt(call.value).kind = "ok") =>
        /\ ret.kind = "ok"
        /\ ret.val = SelectSeq(call.arg, LAMBDA r :
               IF call.column = "success"
               THEN r.success = (Lower(call.value) = TrueText)
               ELSE IF call.column = "scientific_impact"
               THEN r.scientific_impact >= PyInt(call.value).val
               ELSE Contains(Lower(call.value), Lower(ColumnText(r, call.column))))

\* the filter of the last call, applied again with the same arguments
SameFilterAgain(rows) ==
    IF call.fn = "filter_by_prime_years" THEN filter_by_prime_years(rows)
    ELSE IF call.fn = "filter_by_divisible_years"
    THEN filter_by_divisible_years(rows, call.divisor)
    ELSE filter_by_column(rows, call.column, call.value)

\* C8: every filter is idempotent: applied to its own output it returns that
\* output, also when the output is empty.
C8_FiltersIdempotent ==
    (call.fn \in Filters /\ ret.kind = "ok") =>
        /\ SameFilterAgain(ret.val).kind = "ok"
        /\ SameFilterAgain(ret.val).val = ret.val

----------------------------------------------------------------------------
(* Properties of a run of main (checked under Spec) *)

DigitSet == {DigitChars[i] : i \in 1..Len(DigitChars)}

\* the text writes an integer: an optional minus sign, then digits only
IsIntegerText(t) ==
    LET body == IF t # <<>> /\ t[1] = "-" THEN Tail(t) ELSE t
    IN  body # <<>> /\ \A i \in 1..Len(body) : body[i] \in DigitSet

RowParses(row) == IsIntegerText(row.year) /\ IsIntegerText(row.scientific_impact)

Loadable == file.exists /\ \A i \in 1..Len(file.rows) : RowParses(file.rows[i])

\* the process has got past load_data
Loaded == pc \notin {"idle", "load"}

\* C9: load is all-or-nothing and comes first.  A missing file or a row whose
\* year or scientific_impact is no integer gives no records and exit code 1
\* with nothing but the error message printed; a successful load gives one
\* record per row in file order, year and scientific_impact the integers the
\* row writes, success true exactly when the field lower-cased is "true".
C9_LoadAllOrNothing ==
    Loaded =>
        IF Loadable
        THEN /\ Len(data) = Len(file.rows)
             /\ \A i \in 1..Len(data) :
                    /\ data[i].year \in Int
                    /\ PyStr(data[i].year) = file.rows[i].year
                    /\ data[i].scientific_impact \in Int
                    /\ PyStr(data[i].scientific_impact) = file.rows[i].scientific_impact
                    /\ data[i].success = (Lower(file.rows[i].success) = TrueText)
                    /\ data[i].mission_name = file.rows[i].mission_name
                    /\ data[i].mission_type = file.rows[i].mission_type
                    /\ data[i].participating_countries =
                           file.rows[i].participating_countries
        ELSE /\ pc = "done"
             /\ exit_code = <<1>>
             /\ data = <<>>
             /\ filtered_data = <<>>
             /\ Len(out) = 1
             /\ out[1].ev = "message"

C9_Witness ==
    /\ pc = "done"
    /\ exit_code = <<1>>
    /\ file.rows = <<RawA, RawBadImpact>>
    /\ args.prime /\ args.summary /\ args.plot
    /\ data = <<>>

----------------------------------------------------------------------------
(* Statements the code does not meet (Spec) *)

\* the sequence main handed to display_results, if it got that far
Displayed == {out[i].val : i \in {j \in 1..Len(out) : out[j].ev = "table"}}
             \cup {<<>> : i \in {j \in 1..Len(out) : out[j].ev = "no_match"}}

\* the predicate of every flag that was given
MatchesAllFlags(r) ==
    /\ args.prime => NoSmallDivisor(r.year)
    /\ args.divisible_by # <<>> =>
           (args.divisible_by[1] # 0 /\ PyMod(r.year, args.divisible_by[1]) = 0)
    /\ args.type # <<>> => Contains(Lower(args.type[1]), Lower(r.mission_type))
    /\ args.country # <<>> =>
           Contains(Lower(args.country[1]), Lower(r.participating_countries))
    /\ args.success # <<>> => (r.success = (args.success[1] = TrueText))
    /\ args.impact # <<>> => r.scientific_impact >= args.impact[1]

\* C2: what main passes to display_results is exactly the loaded records, in
\* file order, that satisfy the predicate of every flag given.
C2_DisplayedIsConjunctionOfFlags ==
    \A shown \in Displayed : shown = SelectSeq(data, MatchesAllFlags)

\* C3: whenever load_data succeeds the run ends with exit code 0, whatever the
\* flags and however few records are left; exit code 1 only for a load failure.
C3_ExitZeroAfterLoad ==
    pc = "done" => (exit_code = <<0>>) = Loadable

\* C4: a zero divisor ends in the division-by-zero error and never in a result:
\* a run of main with -a 0 on loaded records never gets as far as printing a
\* table (or the no-match notice in its place).
C4_ZeroDivisorNeverDisplays ==
    (Loaded /\ data # <<>> /\ args.divisible_by = <<0>>) => Displayed = {}

====
